---- MODULE Spec2Model ----
(***************************************************************************)
(* Model of the hopper65 block engine (crates/hopper65/src/block.rs):      *)
(* State { regmap, insts }, Inst, Op, State::add_patch, State::sets_at and *)
(* State::on.  Instruction indices are 0-based as in the source; the       *)
(* sequence insts is 1-based, so the instruction at index i is insts[i+1]. *)
(***************************************************************************)
EXTENDS Integers, Sequences, FiniteSets, TLC

\* ------------------------------------------------------------------ bounds
MaxNames == 2      \* logical value ids V are 1..MaxNames
MaxByte == 1       \* u8 constants are 0..MaxByte
MaxSteps == 4      \* calls of on() made by the driver from the empty State
MaxAnyLen == 2     \* length of the instruction vectors of hand-built States
MaxPieces == 4     \* pieces ("arch ", a tag letter, a newline) a meta text is made of
MaxFileBytes == 1  \* length of the byte slice handed to parse_file
MaxEntries == 2    \* ListingEntry values handed to print_detached_listing
MaxAddr == 3       \* ListingEntry::address is 0..MaxAddr
MaxEntryBytes == 2 \* length of ListingEntry::bytes

\* ------------------------------------------------------------- data model
Reg == {"A", "X", "Y"}
Names == 1..MaxNames
Bytes == 0..MaxByte

StoreArg(reg, fwd) == [op |-> "StoreArg", reg |-> reg, fwd |-> fwd]
LoadConst(reg, value) == [op |-> "LoadConst", reg |-> reg, value |-> value]
Transfer(from, to) == [op |-> "Transfer", from |-> from, to |-> to]

Just(v) == [kind |-> "Just", v |-> v]
Const(a) == [kind |-> "Const", a |-> a]
Op == {Just(v) : v \in Names} \cup {Const(a) : a \in Bytes}

State(regmap, insts) == [regmap |-> regmap, insts |-> insts]
EmptyMap == [k \in {} |-> <<"A", 0>>]
EmptyState == State(EmptyMap, <<>>)

\* BTreeMap::insert
MapInsert(m, k, e) == [x \in (DOMAIN m) \cup {k} |-> IF x = k THEN e ELSE m[x]]
\* Vec::insert(at, x) with 0-based at <= len
VecInsert(q, at, x) == SubSeq(q, 1, at) \o <<x>> \o SubSeq(q, at + 1, Len(q))

\* ---------------------------------------------------------------- add_patch
\* as add_patch_l, one short: the distance to the last old instruction
add_patch_l_short(s, orig) == Len(s.insts) - orig

\* let l = self.insts.len() as u32 + 1 - orig
add_patch_l(s, orig) == Len(s.insts) + 1 - orig

\* as add_patch_insts, storing the StoreArg over the instruction at orig
add_patch_insts_overwrite(s, orig, reg, target) ==
  LET ins1 == [i \in 1..Len(s.insts) |->
                 IF i = orig + 1 THEN StoreArg(reg, add_patch_l(s, orig))
                 ELSE s.insts[i]]
      ins2 == Append(ins1, LoadConst(target, 0))
  IN [i \in 1..Len(ins2) |->
        IF i <= orig /\ ins2[i].op = "StoreArg"
        THEN StoreArg(ins2[i].reg, ins2[i].fwd + 1)
        ELSE ins2[i]]

\* the insert, the push and the loop over insts[..orig]
add_patch_insts(s, orig, reg, target) ==
  LET ins1 == VecInsert(s.insts, orig, StoreArg(reg, add_patch_l(s, orig)))
      ins2 == Append(ins1, LoadConst(target, 0))
  IN [i \in 1..Len(ins2) |->
        IF i <= orig /\ ins2[i].op = "StoreArg"
        THEN StoreArg(ins2[i].reg, ins2[i].fwd + 1)
        ELSE ins2[i]]

\* as add_patch_regmap, renumbering only the indices strictly above orig
add_patch_regmap_above(s, orig) ==
  [k \in DOMAIN s.regmap |->
     IF s.regmap[k][2] > orig
     THEN <<s.regmap[k][1], s.regmap[k][2] + 1>>
     ELSE s.regmap[k]]

\* as add_patch_regmap, renumbering every index
add_patch_regmap_all(s, orig) ==
  [k \in DOMAIN s.regmap |-> <<s.regmap[k][1], s.regmap[k][2] + 1>>]

\* the loop over regmap.values_mut()
add_patch_regmap(s, orig) ==
  [k \in DOMAIN s.regmap |->
     IF s.regmap[k][2] >= orig
     THEN <<s.regmap[k][1], s.regmap[k][2] + 1>>
     ELSE s.regmap[k]]

add_patch(s, orig, reg, target) ==
  State(add_patch_regmap(s, orig), add_patch_insts(s, orig, reg, target))

\* Vec::insert panics when the index is past the end (and len + 1 - orig
\* underflows u32 when orig > len + 1)
add_patch_panics(s, orig) == orig > Len(s.insts)

\* ------------------------------------------------------------------ sets_at
\* The loop of sets_at with idx as the loop variable: "T" / "F" for the two
\* returns, "P" when idx -= 1 is reached with idx = 0.
\* as sets_at_loop, counting a Transfer from reg to reg as a set
RECURSIVE sets_at_loop_any_transfer(_, _, _, _)
sets_at_loop_any_transfer(insts, idx, lim, reg) ==
  IF idx = lim THEN "F"
  ELSE IF idx = 0 THEN "P"
  ELSE LET i == insts[idx]
       IN IF i.op = "LoadConst" /\ i.reg = reg THEN "T"
          ELSE IF i.op = "Transfer" /\ i.to = reg THEN "T"
          ELSE sets_at_loop_any_transfer(insts, idx - 1, lim, reg)

\* as sets_at_loop, stopping before the instruction at lim is examined
RECURSIVE sets_at_loop_exclusive(_, _, _, _)
sets_at_loop_exclusive(insts, idx, lim, reg) ==
  IF idx = lim \/ idx = lim + 1 THEN "F"
  ELSE IF idx = 0 THEN "P"
  ELSE LET i == insts[idx]
       IN IF i.op = "LoadConst" /\ i.reg = reg THEN "T"
          ELSE IF i.op = "Transfer" /\ i.to = reg /\ i.from # reg THEN "T"
          ELSE sets_at_loop_exclusive(insts, idx - 1, lim, reg)

\* as sets_at_loop, leaving the loop on idx < lim instead of idx == lim
RECURSIVE sets_at_loop_less(_, _, _, _)
sets_at_loop_less(insts, idx, lim, reg) ==
  IF idx < lim THEN "F"
  ELSE IF idx = 0 THEN "P"
  ELSE LET i == insts[idx]
       IN IF i.op = "LoadConst" /\ i.reg = reg THEN "T"
          ELSE IF i.op = "Transfer" /\ i.to = reg /\ i.from # reg THEN "T"
          ELSE sets_at_loop_less(insts, idx - 1, lim, reg)

RECURSIVE sets_at_loop(_, _, _, _)
sets_at_loop(insts, idx, lim, reg) ==
  IF idx = lim THEN "F"
  ELSE IF idx = 0 THEN "P"
  ELSE LET i == insts[idx]   \* idx - 1 as a 0-based index
       IN IF i.op = "LoadConst" /\ i.reg = reg THEN "T"
          ELSE IF i.op = "Transfer" /\ i.to = reg /\ i.from # reg THEN "T"
          ELSE sets_at_loop(insts, idx - 1, lim, reg)

sets_at(s, lim, reg) == sets_at_loop(s.insts, Len(s.insts), lim, reg) = "T"
sets_at_panics(s, lim, reg) == sets_at_loop(s.insts, Len(s.insts), lim, reg) = "P"

\* ----------------------------------------------------------------------- on
\* new.regmap.insert(this, (r, new.insts.len() - 1))
bind_last(s, this, r) ==
  State(MapInsert(s.regmap, this, <<r, Len(s.insts) - 1>>), s.insts)

\* as just_alt, with the Transfer pushed the wrong way round
just_alt_swapped(s, this, or, oi, r) ==
  bind_last(IF sets_at(s, oi, r)
            THEN add_patch(s, oi, or, r)
            ELSE State(s.regmap, Append(s.insts, Transfer(r, or))),
            this, r)

\* as just_alt, without the push of the Transfer
just_alt_no_transfer(s, this, or, oi, r) ==
  bind_last(IF sets_at(s, oi, r) THEN add_patch(s, oi, or, r) ELSE s, this, r)

\* as just_alt, binding this to the source register instead of r
just_alt_bind_or(s, this, or, oi, r) ==
  bind_last(IF sets_at(s, oi, r)
            THEN add_patch(s, oi, or, r)
            ELSE State(s.regmap, Append(s.insts, Transfer(or, r))),
            this, or)

\* the closure of the Op::Just branch taken when sets_at(oi, or) holds
just_alt(s, this, or, oi, r) ==
  bind_last(IF sets_at(s, oi, r)
            THEN add_patch(s, oi, or, r)
            ELSE State(s.regmap, Append(s.insts, Transfer(or, r))),
            this, r)

\* as const_alt, binding this to insts.len() instead of insts.len() - 1
const_alt_bind_len(s, this, a, r) ==
  State(MapInsert(s.regmap, this, <<r, Len(s.insts) + 1>>),
        Append(s.insts, LoadConst(r, a)))

\* the closure of the Op::Const branch
const_alt(s, this, a, r) ==
  bind_last(State(s.regmap, Append(s.insts, LoadConst(r, a))), this, r)

\* as on, taking the three-register branch whatever sets_at(oi, or) returns
on_always_branches(s, this, op) ==
  IF op.kind = "Just"
  THEN IF op.v \in DOMAIN s.regmap
       THEN {just_alt(s, this, s.regmap[op.v][1], s.regmap[op.v][2], r) : r \in Reg}
       ELSE {}
  ELSE {const_alt(s, this, op.a, r) : r \in Reg}

\* as on, returning the unchanged clone when v has no residency
on_unknown_keeps(s, this, op) ==
  IF op.kind = "Just"
  THEN IF op.v \in DOMAIN s.regmap
       THEN LET or == s.regmap[op.v][1]
                oi == s.regmap[op.v][2]
            IN IF sets_at(s, oi, or)
               THEN {just_alt(s, this, or, oi, r) : r \in Reg}
               ELSE {State(MapInsert(s.regmap, this, <<or, oi>>), s.insts)}
       ELSE {s}
  ELSE {const_alt(s, this, op.a, r) : r \in Reg}

on(s, this, op) ==
  IF op.kind = "Just"
  THEN IF op.v \in DOMAIN s.regmap
       THEN LET or == s.regmap[op.v][1]
                oi == s.regmap[op.v][2]
            IN IF sets_at(s, oi, or)
               THEN {just_alt(s, this, or, oi, r) : r \in Reg}
               ELSE {State(MapInsert(s.regmap, this, <<or, oi>>), s.insts)}
       ELSE {}
  ELSE {const_alt(s, this, op.a, r) : r \in Reg}

\* on() unwinds instead of returning: a scan runs off the front of insts, or
\* add_patch is reached with an index past the end
on_panics(s, this, op) ==
  /\ op.kind = "Just"
  /\ op.v \in DOMAIN s.regmap
  /\ LET or == s.regmap[op.v][1]
         oi == s.regmap[op.v][2]
     IN \/ sets_at_panics(s, oi, or)
        \/ /\ sets_at(s, oi, or)
           /\ \E r \in Reg : \/ sets_at_panics(s, oi, r)
                             \/ sets_at(s, oi, r) /\ add_patch_panics(s, oi)

\* ------------------------------------------------------------------- state
VARIABLES
  st,      \* the State the driver holds
  call,    \* the last call made: its receiver, arguments and result
  denot,   \* per bound name, the byte of the Op::Const that created its value
  tags,    \* per instruction, the number of the add_patch that emitted it (0: none)
  steps,   \* calls of on() made so far
  file     \* the retroc-file call in progress: its inputs, position and result

vars == <<st, call, denot, tags, steps, file>>

NoFile == [fn |-> "none"]

NoCall == [fn |-> "none"]
OnCall(pre, this, op) ==
  [fn |-> "on", pre |-> pre, this |-> this, op |-> op,
   panic |-> on_panics(pre, this, op),
   out |-> IF on_panics(pre, this, op) THEN {} ELSE on(pre, this, op)]
PatchCall(pre, orig, reg, target) ==
  [fn |-> "add_patch", pre |-> pre, orig |-> orig, reg |-> reg, target |-> target,
   post |-> add_patch(pre, orig, reg, target)]
ScanCall(pre, lim, reg) ==
  [fn |-> "sets_at", pre |-> pre, lim |-> lim, reg |-> reg,
   res |-> sets_at_loop(pre.insts, Len(pre.insts), lim, reg)]

MaxTag(q) == IF q = <<>> THEN 0
             ELSE CHOOSE m \in {q[i] : i \in 1..Len(q)} :
                    \A i \in 1..Len(q) : q[i] <= m

\* the driver: start from the empty State, call on(), continue with one of
\* the returned alternatives
Init ==
  /\ st = EmptyState
  /\ call = NoCall
  /\ denot = [k \in {} |-> 0]
  /\ tags = <<>>
  /\ steps = 0
  /\ file = NoFile

Advance(this, op, value) ==
  /\ steps < MaxSteps
  /\ steps' = steps + 1
  /\ UNCHANGED file
  /\ call' = OnCall(st, this, op)
  /\ IF call'.out = {}
     THEN UNCHANGED <<st, denot, tags>>
     ELSE /\ st' \in call'.out
          /\ denot' = MapInsert(denot, this, value)
          /\ tags' = IF Len(st'.insts) = Len(st.insts) + 2
                     THEN LET id == MaxTag(tags) + 1
                          IN Append(VecInsert(tags, st.regmap[op.v][2], id), id)
                     ELSE IF Len(st'.insts) = Len(st.insts) + 1
                     THEN Append(tags, 0)
                     ELSE tags

LoadFresh ==
  \E this \in Names, a \in Bytes : Advance(this, Const(a), a)

Reuse ==
  \E this \in Names, v \in Names :
    Advance(this, Just(v), IF v \in DOMAIN denot THEN denot[v] ELSE 0)

Next == LoadFresh \/ Reuse

Spec == Init /\ [][Next]_vars

\* ---------------------------------------------------- hand-built States
\* State's fields are pub: a caller can hand on(), add_patch() and sets_at()
\* any State, whether or not the engine produced it.
AnyInsts ==
  {StoreArg(r, f) : r \in Reg, f \in 1..MaxAnyLen}
    \cup {LoadConst(r, b) : r \in Reg, b \in Bytes}
    \cup {Transfer(f, t) : f \in Reg, t \in Reg}
AnySeqs == UNION {[1..n -> AnyInsts] : n \in 0..MaxAnyLen}
AnyMaps == UNION {[D -> Reg \X (0..MaxAnyLen)] : D \in SUBSET Names}

InitAny ==
  /\ \E m \in AnyMaps, q \in AnySeqs : st = State(m, q)
  /\ call = NoCall
  /\ denot = [k \in {} |-> 0]
  /\ tags = <<>>
  /\ steps = 0
  /\ file = NoFile

\* one call per hand-built State
AnyOn ==
  /\ call = NoCall
  /\ \E this \in Names, op \in Op : call' = OnCall(st, this, op)
  /\ UNCHANGED <<st, denot, tags, steps, file>>

AnyPatch ==
  /\ call = NoCall
  /\ \E orig \in 0..Len(st.insts), reg \in Reg, target \in Reg :
        call' = PatchCall(st, orig, reg, target)
  /\ UNCHANGED <<st, denot, tags, steps, file>>

AnyScan ==
  /\ call = NoCall
  /\ \E lim \in 0..MaxAnyLen, reg \in Reg : call' = ScanCall(st, lim, reg)
  /\ UNCHANGED <<st, denot, tags, steps, file>>

NextAny == AnyOn \/ AnyPatch \/ AnyScan

SpecAny == InitAny /\ [][NextAny]_vars

\* ------------------------------------------- retroc-file: FileRegistry
\* A text is a sequence of characters.
Arch == <<"a", "r", "c", "h", " ">>
Newline == "\n"
Pieces == {Arch, <<"x">>, <<"y">>, <<Newline>>}
RECURSIVE MetaTexts(_)
MetaTexts(n) ==
  IF n = 0 THEN {<<>>}
  ELSE LET prev == MetaTexts(n - 1)
       IN prev \cup {p \o m : p \in Pieces, m \in prev}
\* the names parsers are registered under (register_parser)
ParserKeys == {<<>>, <<"x">>, <<"y">>}

\* str::strip_prefix: <<TRUE, rest>> for Some(rest), <<FALSE, s>> for None
strip_prefix(s, prefix) ==
  IF Len(s) >= Len(prefix) /\ SubSeq(s, 1, Len(prefix)) = prefix
  THEN <<TRUE, SubSeq(s, Len(prefix) + 1, Len(s))>>
  ELSE <<FALSE, s>>

\* str::split_once: <<TRUE, before, after>> at the first delimiter, or <<FALSE>>
split_once(s, delim) ==
  IF \E i \in 1..Len(s) : s[i] = delim
  THEN LET i == CHOOSE i \in 1..Len(s) :
                  s[i] = delim /\ \A j \in 1..(i - 1) : s[j] # delim
       IN <<TRUE, SubSeq(s, 1, i - 1), SubSeq(s, i + 1, Len(s))>>
  ELSE <<FALSE>>

Suffixes(s) == {SubSeq(s, i, Len(s)) : i \in 1..(Len(s) + 1)}

\* the loop body of parse_file up to the parser lookup: what the iteration
\* does with the current meta text
\*   "ok"          meta does not start with "arch ": return Ok
\*   "incomplete"  no newline after "arch ": return ArchIncomplete
\*   "noparser"    self.parsers.get(x) is None: return NoParser
\*   "invoke"      parser `key` is called with meta text `given`
parse_file_iter(parsers, meta) ==
  LET sp == strip_prefix(meta, Arch)
  IN IF ~sp[1] THEN [kind |-> "ok"]
     ELSE LET so == split_once(sp[2], Newline)
          IN IF ~so[1] THEN [kind |-> "incomplete"]
             ELSE LET meta2 == so[2]   \* (meta, x) = (a, b)
                      x == so[3]
                      hdr == [tag |-> so[2], rest |-> so[3]]
                  IN IF x \notin parsers
                     THEN [kind |-> "noparser", hdr |-> hdr]
                     ELSE [kind |-> "invoke", hdr |-> hdr, key |-> x, given |-> meta2]

ParseFileCall(parsers, bytes, meta) ==
  [fn |-> "parse_file", parsers |-> parsers, bytes |-> bytes, meta |-> meta,
   all |-> <<>>, ret |-> "running", hdrs |-> <<>>]

InitFile ==
  /\ st = EmptyState
  /\ call = NoCall
  /\ denot = [k \in {} |-> 0]
  /\ tags = <<>>
  /\ steps = 0
  /\ \E parsers \in SUBSET ParserKeys, bytes \in 0..MaxFileBytes,
        meta \in MetaTexts(MaxPieces) :
       file = ParseFileCall(parsers, bytes, meta)

Parsing(kind) ==
  /\ file.fn = "parse_file"
  /\ file.ret = "running"
  /\ parse_file_iter(file.parsers, file.meta).kind = kind
  /\ UNCHANGED <<st, call, denot, tags, steps>>

\* None => return Ok((bytes, meta, all))
ParseReturnOk ==
  /\ Parsing("ok")
  /\ file' = [file EXCEPT !.ret = "Ok"]

\* None => return Err(ArchIncomplete)
ParseArchIncomplete ==
  /\ Parsing("incomplete")
  /\ file' = [file EXCEPT !.ret = "ArchIncomplete"]

\* else { return Err(NoParser) }
ParseNoParser ==
  /\ Parsing("noparser")
  /\ file' = [file EXCEPT !.ret = "NoParser",
                          !.hdrs = Append(@, parse_file_iter(file.parsers, file.meta).hdr)]

\* x.from_bytes_and_meta(bytes, meta, self) returns Ok: it has consumed some
\* of the bytes and of the meta text it was given
ParseInvokeOk ==
  /\ Parsing("invoke")
  /\ LET it == parse_file_iter(file.parsers, file.meta)
     IN \E bytes2 \in 0..file.bytes, meta2 \in Suffixes(it.given) :
          file' = [file EXCEPT !.bytes = bytes2,
                               !.meta = meta2,
                               !.all = Append(@, [by |-> it.key, meta |-> it.given]),
                               !.hdrs = Append(@, it.hdr)]

\* x.from_bytes_and_meta(bytes, meta, self)? returns the parser's error
ParseInvokeErr ==
  /\ Parsing("invoke")
  /\ file' = [file EXCEPT !.ret = "ParserErr",
                          !.hdrs = Append(@, parse_file_iter(file.parsers, file.meta).hdr)]

NextFile ==
  \/ ParseReturnOk
  \/ ParseArchIncomplete
  \/ ParseNoParser
  \/ ParseInvokeOk
  \/ ParseInvokeErr

SpecFile == InitFile /\ [][NextFile]_vars

\* ------------------------------------- retroc-file: print_detached_listing
ListingEntry(address, bytes, text) ==
  [address |-> address, bytes |-> bytes, text |-> text]
ListingConfig(base, addr_groups, addr_group_width) ==
  [base |-> base, addr_groups |-> addr_groups, addr_group_width |-> addr_group_width]
\* ListingConfig::new_hex / new_octal (the entry_* fields are not read here)
new_hex(addr_groups, addr_group_width) == ListingConfig(16, addr_groups, addr_group_width)
new_octal(addr_groups, addr_group_width) == ListingConfig(8, addr_groups, addr_group_width)

RECURSIVE Pow(_, _)
Pow(b, n) == IF n = 0 THEN 1 ELSE b * Pow(b, n - 1)

\* format_grouped_number for base 8 or 16: `groups` groups, most significant
\* first, each the group_width digits (as digit values) of value & mask, with
\* value shifted right by one group after each
format_grouped_number(value, cfg, groups, group_width) ==
  LET m == Pow(cfg.base, group_width)        \* mask + 1 = 1 << bits
      part(g) == (value \div Pow(m, groups - g)) % m
  IN [g \in 1..groups |->
        [k \in 1..group_width |->
           (part(g) \div Pow(cfg.base, group_width - k)) % cfg.base]]

\* the for loop of print_detached_listing from entry i on: <<comments, raw>>
RECURSIVE print_loop(_, _, _, _, _)
print_loop(entries, i, cfg, comments, raw) ==
  IF i > Len(entries) THEN <<comments, raw>>
  ELSE LET e == entries[i]
       IN IF e.address # 0
          THEN LET addr == format_grouped_number(e.address, cfg, cfg.addr_groups,
                                                 cfg.addr_group_width)
                   offset == e.address
                   resized == IF Len(raw) < offset
                              THEN raw \o [j \in 1..(offset - Len(raw)) |-> 0]
                              ELSE raw
               IN print_loop(entries, i + 1, cfg,
                             Append(comments, <<addr, " ", e.text, Newline>>),
                             resized \o e.bytes)
          ELSE print_loop(entries, i + 1, cfg,
                          Append(comments, <<e.text, Newline>>), raw)

print_detached_listing(entries, cfg) == print_loop(entries, 1, cfg, <<>>, <<>>)

ByteSeqs == UNION {[1..n -> Bytes] : n \in 0..MaxEntryBytes}
Entries == {ListingEntry(a, b, "t") : a \in 0..MaxAddr, b \in ByteSeqs}
EntrySeqs == UNION {[1..n -> Entries] : n \in 0..MaxEntries}
Configs == {new_hex(2, 1), new_octal(1, 2)}

InitListing ==
  /\ st = EmptyState
  /\ call = NoCall
  /\ denot = [k \in {} |-> 0]
  /\ tags = <<>>
  /\ steps = 0
  /\ \E entries \in EntrySeqs, cfg \in Configs :
       file = [fn |-> "print_detached_listing", entries |-> entries, cfg |-> cfg,
               ret |-> "running"]

PrintListing ==
  /\ file.fn = "print_detached_listing"
  /\ file.ret = "running"
  /\ LET r == print_detached_listing(file.entries, file.cfg)
     IN file' = [fn |-> "print_detached_listing", entries |-> file.entries,
                 cfg |-> file.cfg, ret |-> "done", comments |-> r[1], raw |-> r[2]]
  /\ UNCHANGED <<st, call, denot, tags, steps>>

NextListing == PrintListing

SpecListing == InitListing /\ [][NextListing]_vars

\* ------------------------------------------------ the three-register machine
\* Executes prog from 0-based index p with register file regs and returns the
\* register file after each instruction.  StoreArg at p overwrites the operand
\* (value) of the LoadConst at p + fwd with the current value of its register.
RECURSIVE exec(_, _, _, _)
exec(prog, p, regs, trace) ==
  IF p >= Len(prog) THEN trace
  ELSE LET i == prog[p + 1]
       IN IF i.op = "StoreArg"
          THEN LET t == p + i.fwd
                   patched == IF t < Len(prog) /\ prog[t + 1].op = "LoadConst"
                              THEN [prog EXCEPT ![t + 1] =
                                      LoadConst(prog[t + 1].reg, regs[i.reg])]
                              ELSE prog
               IN exec(patched, p + 1, regs, Append(trace, regs))
          ELSE LET regs2 == IF i.op = "LoadConst"
                            THEN [regs EXCEPT ![i.reg] = i.value]
                            ELSE [regs EXCEPT ![i.to] = regs[i.from]]
               IN exec(prog, p + 1, regs2, Append(trace, regs2))

\* whatever the registers hold at the start, after the instruction at idx the
\* register of every residency entry holds the constant its name denotes
Realizes(s, d) ==
  \A init \in [Reg -> Bytes] :
    LET tr == exec(s.insts, 0, init, <<>>)
    IN \A k \in DOMAIN s.regmap :
         /\ s.regmap[k][2] < Len(s.insts)
         /\ tr[s.regmap[k][2] + 1][s.regmap[k][1]] = d[k]

\* ------------------------------------------------------------------ claims
\* C1: every State reachable from the empty State by calls of on() realizes
\* its requests: run on the three-register machine, its instructions leave,
\* for every residency entry v -> (r, idx), register r holding the constant v
\* denotes right after the instruction at idx.
C1_Realizes == Realizes(st, denot)

\* C2: in every reachable State every residency entry (reg, idx) has
\* idx < len(insts) and insts[idx] is a LoadConst of reg or a Transfer to reg.
C2_SnapshotInvariant ==
  \A k \in DOMAIN st.regmap :
    LET reg == st.regmap[k][1]
        idx == st.regmap[k][2]
    IN /\ idx < Len(st.insts)
       /\ LET i == st.insts[idx + 1]
          IN \/ i.op = "LoadConst" /\ i.reg = reg
             \/ i.op = "Transfer" /\ i.to = reg

\* a patch has just shifted the residency entry of another name by one
C2_Witness ==
  /\ call.fn = "on"
  /\ Len(st.insts) = Len(call.pre.insts) + 2
  /\ \E k \in DOMAIN call.pre.regmap :
       /\ k # call.this
       /\ st.regmap[k][2] = call.pre.regmap[k][2] + 1

\* C3: in every reachable State every StoreArg at index p with field fwd has
\* p + fwd < len(insts), and insts[p + fwd] is the LoadConst placeholder
\* (value 0) pushed by the add_patch call that inserted that StoreArg.
C3_ForwardConsistent ==
  \A p \in 0..(Len(st.insts) - 1) :
    st.insts[p + 1].op = "StoreArg" =>
      LET t == p + st.insts[p + 1].fwd
      IN /\ t < Len(st.insts)
         /\ st.insts[t + 1].op = "LoadConst"
         /\ st.insts[t + 1].value = 0
         /\ tags[p + 1] > 0
         /\ tags[t + 1] = tags[p + 1]

\* C4: after add_patch(s, orig, src, dst) with orig <= len, every residency
\* index below orig is unchanged, every residency index at or above orig is one
\* more, no key or register changes, and there are two more instructions.
C4_PatchIndexIntegrity ==
  call.fn = "add_patch" =>
    /\ DOMAIN call.post.regmap = DOMAIN call.pre.regmap
    /\ \A k \in DOMAIN call.pre.regmap :
         /\ call.post.regmap[k][1] = call.pre.regmap[k][1]
         /\ call.pre.regmap[k][2] < call.orig =>
              call.post.regmap[k][2] = call.pre.regmap[k][2]
         /\ call.pre.regmap[k][2] >= call.orig =>
              call.post.regmap[k][2] = call.pre.regmap[k][2] + 1
    /\ Len(call.post.insts) = Len(call.pre.insts) + 2

\* add_patch ran on a State with one entry below orig and one at or above it
C4_Witness ==
  /\ call.fn = "add_patch"
  /\ \E k1, k2 \in DOMAIN call.pre.regmap :
       /\ call.pre.regmap[k1][2] < call.orig
       /\ call.pre.regmap[k2][2] >= call.orig
       /\ call.post.regmap[k2][2] = call.pre.regmap[k2][2] + 1

\* C5: add_patch(s, orig, src, dst) puts StoreArg{src, len + 1 - orig} at orig
\* and LoadConst{dst, 0} last, orig + fwd being that last index; every old
\* instruction keeps its order (one slot later from orig on) and is unchanged
\* but for the StoreArgs before orig, whose fwd is one more.
C5_PatchLayout ==
  call.fn = "add_patch" =>
    LET n == Len(call.pre.insts)
        q == call.post.insts
    IN /\ Len(q) = n + 2
       /\ q[call.orig + 1] = StoreArg(call.reg, n + 1 - call.orig)
       /\ q[n + 2] = LoadConst(call.target, 0)
       /\ call.orig + q[call.orig + 1].fwd = Len(q) - 1
       /\ \A j \in 0..(n - 1) :
            LET old == call.pre.insts[j + 1]
                new == q[(IF j >= call.orig THEN j + 1 ELSE j) + 1]
            IN IF j < call.orig /\ old.op = "StoreArg"
               THEN new = StoreArg(old.reg, old.fwd + 1)
               ELSE new = old

\* add_patch ran with a StoreArg before orig and an instruction at orig
C5_Witness ==
  /\ call.fn = "add_patch"
  /\ call.orig < Len(call.pre.insts)
  /\ \E j \in 0..(call.orig - 1) : call.pre.insts[j + 1].op = "StoreArg"
  /\ call.post.insts[call.orig + 2] = call.pre.insts[call.orig + 1]

\* the last call was on(pre, this, Just(v)) with v resident, and the scan of
\* v's own register from v's index returned `res`
JustCall(res) ==
  /\ call.fn = "on"
  /\ call.op.kind = "Just"
  /\ call.op.v \in DOMAIN call.pre.regmap
  /\ sets_at_loop(call.pre.insts, Len(call.pre.insts),
                  call.pre.regmap[call.op.v][2], call.pre.regmap[call.op.v][1]) = res

\* C6: when Reuse(v) finds v at (reg, idx) with sets_at(idx, reg) true, the
\* result holds, for each register r, add_patch(s, idx, reg, r) when
\* sets_at(idx, r) is true and s plus Transfer{reg, r} otherwise, with dest
\* bound to (r, last index), and it holds nothing else.
C6_ClobberedBranching ==
  JustCall("T") =>
    LET s == call.pre
        n == Len(s.insts)
        reg == s.regmap[call.op.v][1]
        idx == s.regmap[call.op.v][2]
        succ(r) ==
          IF sets_at(s, idx, r)
          THEN LET p == add_patch(s, idx, reg, r)
               IN State(MapInsert(p.regmap, call.this, <<r, n + 1>>), p.insts)
          ELSE State(MapInsert(s.regmap, call.this, <<r, n>>),
                     Append(s.insts, Transfer(reg, r)))
    IN /\ ~call.panic
       /\ call.out = {succ(r) : r \in Reg}
       /\ \A r \in Reg :
            Len(succ(r).insts) = IF sets_at(s, idx, r) THEN n + 2 ELSE n + 1

\* a clobbered Reuse whose result has a patched and a transferred alternative
C6_Witness ==
  /\ JustCall("T")
  /\ \E t1, t2 \in call.out :
       /\ Len(t1.insts) = Len(call.pre.insts) + 2
       /\ Len(t2.insts) = Len(call.pre.insts) + 1
       /\ t2.insts[Len(t2.insts)].op = "Transfer"

\* C7: a clobbered Reuse returns 1 to 3 States, each binding dest to one of
\* the three registers and each with more instructions than s.
C7_BranchCompleteness ==
  JustCall("T") =>
    /\ ~call.panic
    /\ Cardinality(call.out) \in 1..3
    /\ \A t \in call.out :
         /\ call.this \in DOMAIN t.regmap
         /\ t.regmap[call.this][1] \in Reg
         /\ Len(t.insts) > Len(call.pre.insts)

\* the reused value's register was loaded again after the value was defined
C7_Witness ==
  /\ JustCall("T")
  /\ call.out # {}
  /\ \E j \in 0..(Len(call.pre.insts) - 1) :
       /\ j > call.pre.regmap[call.op.v][2]
       /\ call.pre.insts[j + 1].op = "LoadConst"
       /\ call.pre.insts[j + 1].reg = call.pre.regmap[call.op.v][1]

\* C8: when v is at (reg, idx) and sets_at(idx, reg) is false, Reuse(v)
\* returns one State, with the instructions of s and the residency of s plus
\* dest bound to (reg, idx).
C8_FreeReuse ==
  JustCall("F") =>
    /\ ~call.panic
    /\ Cardinality(call.out) = 1
    /\ \A t \in call.out :
         /\ t.insts = call.pre.insts
         /\ DOMAIN t.regmap = DOMAIN call.pre.regmap \cup {call.this}
         /\ t.regmap[call.this] = call.pre.regmap[call.op.v]
         /\ \A k \in DOMAIN call.pre.regmap :
              k # call.this => t.regmap[k] = call.pre.regmap[k]

\* a free Reuse under a new name of a value whose index is inside insts
C8_Witness ==
  /\ JustCall("F")
  /\ call.this # call.op.v
  /\ call.pre.regmap[call.op.v][2] < Len(call.pre.insts)
  /\ call.out # {}

\* C9: on(s, name, Const(v)) returns exactly 3 States, one per register r:
\* the instructions of s followed by LoadConst{r, v}, name bound to (r, len(s)).
C9_LoadFreshFanOut ==
  (call.fn = "on" /\ call.op.kind = "Const") =>
    LET s == call.pre
    IN /\ ~call.panic
       /\ Cardinality(call.out) = 3
       /\ \A t \in call.out :
            \E r \in Reg :
              /\ t.insts = Append(s.insts, LoadConst(r, call.op.a))
              /\ t.regmap = MapInsert(s.regmap, call.this, <<r, Len(s.insts)>>)
       /\ \A r \in Reg : \E t \in call.out : t.regmap[call.this][1] = r

\* a Const call on a State with instructions that rebinds a bound name
C9_Witness ==
  /\ call.fn = "on"
  /\ call.op.kind = "Const"
  /\ call.op.a # 0
  /\ call.pre.insts # <<>>
  /\ call.this \in DOMAIN call.pre.regmap
  /\ Cardinality(call.out) = 3

\* C10: on(s, dest, Just(v)) with v not resident returns the empty set and
\* does not panic, and on() returns the empty set in no other case.
C10_UnsatisfiableReuse ==
  call.fn = "on" =>
    LET unknown == call.op.kind = "Just" /\ call.op.v \notin DOMAIN call.pre.regmap
    IN /\ unknown => (~call.panic /\ call.out = {})
       /\ (~call.panic /\ call.out = {}) => unknown

\* a Reuse of an unbound name on a State that has instructions and residents
C10_Witness ==
  /\ call.fn = "on"
  /\ call.op.kind = "Just"
  /\ call.op.v \notin DOMAIN call.pre.regmap
  /\ call.pre.insts # <<>>
  /\ DOMAIN call.pre.regmap # {}
  /\ call.out = {}

\* C11: for 0 <= i <= len, sets_at(s, i, r) is true exactly when some index j
\* with i <= j < len holds a LoadConst of r or a Transfer to r from another
\* register; the instruction at i counts, a Transfer from r to r and a
\* StoreArg do not, and the result is false for i = len.
C11_LivenessScan ==
  (call.fn = "sets_at" /\ call.lim <= Len(call.pre.insts)) =>
    LET q == call.pre.insts
        sets(j) == \/ q[j + 1].op = "LoadConst" /\ q[j + 1].reg = call.reg
                   \/ /\ q[j + 1].op = "Transfer"
                      /\ q[j + 1].to = call.reg
                      /\ q[j + 1].from # call.reg
    IN /\ call.res \in {"T", "F"}
       /\ call.res = "T" <=> \E j \in call.lim..(Len(q) - 1) : sets(j)
       /\ call.lim = Len(q) => call.res = "F"

\* a scan that is true only because of the instruction at lim, after passing
\* a Transfer from the register to itself
C11_Witness ==
  /\ call.fn = "sets_at"
  /\ call.lim + 2 = Len(call.pre.insts)
  /\ call.pre.insts[call.lim + 2] = Transfer(call.reg, call.reg)
  /\ call.pre.insts[call.lim + 1].op = "LoadConst"
  /\ call.res = "T"

\* an instruction without its fwd field
NoFwd(i) == IF i.op = "StoreArg" THEN [op |-> "StoreArg", reg |-> i.reg] ELSE i
NoFwdSeq(q) == [j \in 1..Len(q) |-> NoFwd(q[j])]

\* a is b with some elements left out
RECURSIVE IsSubseq(_, _)
IsSubseq(a, b) ==
  IF a = <<>> THEN TRUE
  ELSE IF b = <<>> THEN FALSE
  ELSE IF Head(a) = Head(b) THEN IsSubseq(Tail(a), Tail(b))
  ELSE IsSubseq(a, Tail(b))

\* C12: along every sequence of on() calls, each successor keeps every
\* residency key of its parent and holds all of the parent's instructions in
\* the same relative order (fwd fields aside), with 0, 1 or 2 added.
C12_MonotonicGrowth ==
  call.fn = "on" =>
    \A t \in call.out :
      /\ DOMAIN call.pre.regmap \subseteq DOMAIN t.regmap
      /\ Len(t.insts) - Len(call.pre.insts) \in {0, 1, 2}
      /\ IsSubseq(NoFwdSeq(call.pre.insts), NoFwdSeq(t.insts))

\* the driver continued with a patched successor in which an older StoreArg
\* kept its place and got a new fwd
C12_Witness ==
  /\ call.fn = "on"
  /\ st \in call.out
  /\ Len(st.insts) = Len(call.pre.insts) + 2
  /\ \E j \in 1..Len(call.pre.insts) :
       /\ call.pre.insts[j].op = "StoreArg"
       /\ st.insts[j] # call.pre.insts[j]
       /\ NoFwd(st.insts[j]) = NoFwd(call.pre.insts[j])

\* the Snapshot invariant of a State: every residency index is inside insts,
\* at a LoadConst of the entry's register or a Transfer to it
WellFormed(s) ==
  \A k \in DOMAIN s.regmap :
    /\ s.regmap[k][2] < Len(s.insts)
    /\ LET i == s.insts[s.regmap[k][2] + 1]
       IN \/ i.op = "LoadConst" /\ i.reg = s.regmap[k][1]
          \/ i.op = "Transfer" /\ i.to = s.regmap[k][1]

\* C13: on a State satisfying the Snapshot invariant, every call on() makes
\* to sets_at and add_patch uses an index <= len: no scan decrements idx below
\* 0, len + 1 - orig does not underflow, and on() does not panic.
C13_Totality ==
  (call.fn = "on" /\ WellFormed(call.pre)) =>
    /\ ~call.panic
    /\ (call.op.kind = "Just" /\ call.op.v \in DOMAIN call.pre.regmap) =>
         LET oi == call.pre.regmap[call.op.v][2]
         IN /\ oi <= Len(call.pre.insts)
            /\ \A r \in Reg : ~sets_at_panics(call.pre, oi, r)
            /\ add_patch_l(call.pre, oi) >= 0
            /\ ~add_patch_panics(call.pre, oi)

\* a clobbered Reuse on a well-formed State of a value defined at index 0:
\* one scan runs down to index 0 and returns false, another leads to add_patch
C13_Witness ==
  /\ JustCall("T")
  /\ WellFormed(call.pre)
  /\ call.pre.regmap[call.op.v][2] = 0
  /\ \E t1, t2 \in call.out :
       /\ Len(t1.insts) = Len(call.pre.insts) + 2
       /\ Len(t2.insts) = Len(call.pre.insts) + 1

\* C15: in every successor returned by on(s, dest, op), every residency entry
\* of a name other than dest keeps its register, and keeps its index except
\* on the patch path, where exactly the entries with index >= the reused
\* value's index are one more; no entry is removed or redirected because the
\* new instruction overwrites its register.
C15_ResidencyFrame ==
  call.fn = "on" =>
    \A t \in call.out :
      \A k \in DOMAIN call.pre.regmap \ {call.this} :
        /\ k \in DOMAIN t.regmap
        /\ t.regmap[k][1] = call.pre.regmap[k][1]
        /\ t.regmap[k][2] =
             IF /\ Len(t.insts) = Len(call.pre.insts) + 2
                /\ call.pre.regmap[k][2] >= call.pre.regmap[call.op.v][2]
             THEN call.pre.regmap[k][2] + 1
             ELSE call.pre.regmap[k][2]

\* the driver continued with a patched successor whose placeholder loads the
\* register of another name, and that name's entry moved one slot later
C15_Witness ==
  /\ call.fn = "on"
  /\ st \in call.out
  /\ Len(st.insts) = Len(call.pre.insts) + 2
  /\ \E k \in DOMAIN call.pre.regmap \ {call.this} :
       /\ st.regmap[k][1] = st.regmap[call.this][1]
       /\ st.regmap[k][2] = call.pre.regmap[k][2] + 1

\* C16: in every reachable State sets_at(idx, reg) is true for every
\* residency entry (reg, idx) and no Transfer goes from a register to itself;
\* so a Reuse of a bound name never takes the free path and every successor
\* has 1 or 2 instructions more.
C16_ReuseNeverFree ==
  /\ \A k \in DOMAIN st.regmap : sets_at(st, st.regmap[k][2], st.regmap[k][1])
  /\ \A j \in 1..Len(st.insts) :
       st.insts[j].op = "Transfer" => st.insts[j].from # st.insts[j].to
  /\ (call.fn = "on" /\ call.op.kind = "Just"
        /\ call.op.v \in DOMAIN call.pre.regmap) =>
       /\ JustCall("T")
       /\ call.out # {}
       /\ \A t \in call.out : Len(t.insts) - Len(call.pre.insts) \in {1, 2}

\* a Reuse right after the Const that created the value, nothing in between
C16_Witness ==
  /\ call.fn = "on"
  /\ call.op.kind = "Just"
  /\ call.op.v \in DOMAIN call.pre.regmap
  /\ Len(call.pre.insts) = 1
  /\ call.pre.insts[1].op = "LoadConst"
  /\ st \in call.out
  /\ Len(st.insts) > 1

\* C17: a Reuse on the clobbered path returns exactly 3 pairwise distinct
\* States, one per destination register.
C17_NoCollapse ==
  JustCall("T") =>
    /\ Cardinality(call.out) = 3
    /\ \A r \in Reg :
         Cardinality({t \in call.out : t.regmap[call.this][1] = r}) = 1

\* a clobbered Reuse in which two registers take the same path (a Transfer)
C17_Witness ==
  /\ JustCall("T")
  /\ \E t1, t2 \in call.out :
       /\ t1 # t2
       /\ t1.insts[Len(t1.insts)].op = "Transfer"
       /\ t2.insts[Len(t2.insts)].op = "Transfer"
       /\ t1.regmap[call.this][1] # t2.regmap[call.this][1]

\* C18: parse_file, given 'arch <tag>' + newline + <rest>, calls the parser
\* registered under <tag> with <rest> as the meta text and appends its result;
\* it returns NoParser only when no parser is registered under <tag>,
\* ArchIncomplete when the header has no newline, and Ok when the meta text
\* does not start with 'arch '.
C18_ArchDispatch ==
  file.fn = "parse_file" =>
    /\ \A i \in 1..Len(file.all) :
         /\ file.all[i].by = file.hdrs[i].tag
         /\ file.all[i].meta = file.hdrs[i].rest
    /\ file.ret = "NoParser" => file.hdrs[Len(file.hdrs)].tag \notin file.parsers
    /\ file.ret = "ArchIncomplete" =>
         /\ strip_prefix(file.meta, Arch)[1]
         /\ \A i \in 1..Len(file.meta) : file.meta[i] # Newline
    /\ file.ret = "Ok" => ~strip_prefix(file.meta, Arch)[1]

\* the byte ranges of the addressed entries do not overlap
DisjointEntries(entries) ==
  \A i, j \in 1..Len(entries) :
    (i # j /\ entries[i].address # 0 /\ entries[j].address # 0) =>
      \/ entries[i].address + Len(entries[i].bytes) <= entries[j].address
      \/ entries[j].address + Len(entries[j].bytes) <= entries[i].address

\* C19: print_detached_listing places bytes at their addresses: whatever the
\* order of the entries, each entry with nonzero address a and bytes b
\* occupies positions a .. a+len(b)-1 of the returned raw vector.  Stated for
\* entries whose ranges do not overlap, where every entry can have its place.
C19_BytesAtAddress ==
  (file.fn = "print_detached_listing" /\ file.ret = "done"
     /\ DisjointEntries(file.entries)) =>
    \A i \in 1..Len(file.entries) :
      LET e == file.entries[i]
      IN e.address # 0 =>
           \A j \in 1..Len(e.bytes) :
             /\ e.address + j <= Len(file.raw)
             /\ file.raw[e.address + j] = e.bytes[j]

====
